---- MODULE Spec2Model ----
(***************************************************************************)
(* A model of scepter/tleforger.py: the TLE checksum, the leading-zero     *)
(* scientific field encoder, the single-record forger and the belt forger. *)
(*                                                                         *)
(* Text is a sequence of one-character strings.  A real number given to a  *)
(* fixed-point format ("{:8.4f}" and friends) is a record                  *)
(*   [neg, whole, frac]   meaning  (-1)^neg * (whole + frac / 10^9),       *)
(* nine decimal places of the double.  The argument of format_leading_zero *)
(* is a record [neg, m, e] meaning (-1)^neg * m * 10^e, because its range  *)
(* of magnitudes (1e-99 .. 1e13) does not fit a fixed-point record.        *)
(* Python formats a double by its exact value, rounding ties to even; the  *)
(* inputs drawn below are never exactly on a tie, so the binary rounding   *)
(* of the double cannot change a digit the model prints.                   *)
(***************************************************************************)
EXTENDS Integers, Sequences, FiniteSets, TLC

VARIABLES pc, call, ret, plane_idx, satellite_idx, tle_list

vars == <<pc, call, ret, plane_idx, satellite_idx, tle_list>>

(***************************************************************************)
(* Arithmetic and text helpers                                             *)
(***************************************************************************)
RECURSIVE Pow10(_)
Pow10(k) == IF k <= 0 THEN 1 ELSE 10 * Pow10(k - 1)

RECURSIVE NumDigits(_)
NumDigits(m) == IF m < 10 THEN 1 ELSE 1 + NumDigits(m \div 10)

Abs(x) == IF x < 0 THEN 0 - x ELSE x

\* round(): num/den to the nearest integer, ties to the even one.
RoundHalfEven(num, den) ==
    LET q == num \div den
        r == num % den
    IN  IF 2 * r < den THEN q
        ELSE IF 2 * r > den THEN q + 1
        ELSE IF q % 2 = 0 THEN q ELSE q + 1

DigitChars == <<"0", "1", "2", "3", "4", "5", "6", "7", "8", "9">>

DigitChar(d) == DigitChars[d + 1]

IsDigit(ch) == \E d \in 0..9 : DigitChars[d + 1] = ch

DigitValue(ch) == CHOOSE d \in 0..9 : DigitChars[d + 1] = ch

\* str(n) of a non-negative integer.
RECURSIVE IntStr(_)
IntStr(n) == IF n < 10 THEN <<DigitChar(n)>>
             ELSE Append(IntStr(n \div 10), DigitChar(n % 10))

RECURSIVE Repeat(_, _)
Repeat(ch, k) == IF k <= 0 THEN <<>> ELSE <<ch>> \o Repeat(ch, k - 1)

\* "{:0Wd}": zero-padded on the left to at least w characters.
ZeroPad(s, w) == Repeat("0", w - Len(s)) \o s

\* "{:Wd}", "{:W.Pf}": numbers are right-aligned in at least w characters.
PadLeft(s, w) == Repeat(" ", w - Len(s)) \o s

\* "{:W}" of a string: left-aligned in at least w characters.
PadRight(s, w) == s \o Repeat(" ", w - Len(s))

\* s[k:] for k >= 0.
DropFirst(s, k) == IF k >= Len(s) THEN <<>> ELSE SubSeq(s, k + 1, Len(s))

\* "{:.Pf}" of a real: sign, integer part, point, exactly prec decimals.
FormatF(x, prec) ==
    LET r     == RoundHalfEven(x.frac, Pow10(9 - prec))
        whole == x.whole + (r \div Pow10(prec))
        frac  == r % Pow10(prec)
    IN  (IF x.neg THEN <<"-">> ELSE <<>>)
        \o IntStr(whole) \o <<".">> \o ZeroPad(IntStr(frac), prec)

\* sqrt of an integer below 2^31, rounded down, by bisection.
RECURSIVE SqrtSearch(_, _, _)
SqrtSearch(x, lo, hi) ==
    IF lo >= hi THEN lo
    ELSE LET mid == (lo + hi + 1) \div 2
         IN  IF mid * mid <= x THEN SqrtSearch(x, mid, hi)
             ELSE SqrtSearch(x, lo, mid - 1)

(***************************************************************************)
(* _compute_tle_checksum                                                   *)
(***************************************************************************)
ChecksumTerm_NoMinus(ch) == IF IsDigit(ch) THEN DigitValue(ch) ELSE 0

\* int(ch) if ch.isdigit() else 1 if ch == '-' else 0
ChecksumTerm(ch) ==
    IF IsDigit(ch) THEN DigitValue(ch) ELSE IF ch = "-" THEN 1 ELSE 0

RECURSIVE SumTerms(_)
SumTerms(s) == IF s = <<>> THEN 0 ELSE ChecksumTerm(Head(s)) + SumTerms(Tail(s))

_compute_tle_checksum(tle_line) == SumTerms(tle_line) % 10

(***************************************************************************)
(* format_leading_zero, nested in forge_tle_single                         *)
(***************************************************************************)
\* abs(value) < 1e-99
BelowTiny(value) == value.m = 0 \/ NumDigits(value.m) + value.e <= 0 - 99

\* The loop "while vabs >= 10.0 and exponent < 9": vabs is m * 10^e.
RECURSIVE DivideLoop(_, _, _)
DivideLoop(m, e, exponent) ==
    IF NumDigits(m) + e >= 2 /\ exponent < 9
    THEN DivideLoop(m, e - 1, exponent + 1)
    ELSE [m |-> m, e |-> e, exponent |-> exponent]

RECURSIVE MultiplyLoop_Up(_, _, _)
MultiplyLoop_Up(m, e, exponent) ==
    IF NumDigits(m) + e <= 0 /\ exponent < 9
    THEN MultiplyLoop_Up(m, e + 1, exponent + 1)
    ELSE [m |-> m, e |-> e, exponent |-> exponent]

\* The loop "while vabs < 1.0 and exponent > -9".
RECURSIVE MultiplyLoop(_, _, _)
MultiplyLoop(m, e, exponent) ==
    IF NumDigits(m) + e <= 0 /\ exponent > 0 - 9
    THEN MultiplyLoop(m, e + 1, exponent - 1)
    ELSE [m |-> m, e |-> e, exponent |-> exponent]

\* Step 1: "if vabs >= 1.0: ... else: ...".
Normalize(m, e) ==
    IF NumDigits(m) + e >= 1 THEN DivideLoop(m, e, 0) ELSE MultiplyLoop(m, e, 0)

\* round(vabs * 10000) for vabs = m * 10^e.
RoundMantissa(m, e) ==
    LET k == e + 4
    IN  IF k >= 0 THEN m * Pow10(k)
        ELSE IF 0 - k > NumDigits(m) THEN 0
        ELSE RoundHalfEven(m, Pow10(0 - k))

Carry_None(mantissa_int, exponent) ==
    [mantissa_int |-> mantissa_int, exponent |-> exponent]

\* "if mantissa_int >= 100000: mantissa_int //= 10; exponent += 1",
\* saturating the exponent at 9.
Carry(mantissa_int, exponent) ==
    IF mantissa_int >= 100000
    THEN [mantissa_int |-> mantissa_int \div 10,
          exponent |-> IF exponent + 1 > 9 THEN 9 ELSE exponent + 1]
    ELSE [mantissa_int |-> mantissa_int, exponent |-> exponent]

format_leading_zero(value) ==
    IF BelowTiny(value) THEN <<" ", "0", "0", "0", "0", "0", "-", "0">>
    ELSE LET sign_mantissa == IF value.neg THEN "-" ELSE " "
             n == Normalize(value.m, value.e)
             c == Carry(RoundMantissa(n.m, n.e), n.exponent)
             mantissa_str == ZeroPad(IntStr(c.mantissa_int), 5)
             sign_exp == IF c.exponent < 0 THEN "-" ELSE "+"
             exponent_str == IntStr(Abs(c.exponent))
         IN  <<sign_mantissa>> \o mantissa_str \o <<sign_exp>> \o exponent_str

(***************************************************************************)
(* forge_tle_single                                                        *)
(***************************************************************************)
Real(neg, whole, frac) == [neg |-> neg, whole |-> whole, frac |-> frac]

\* astropy.constants.R_earth.value, metres.
R_earth == 6378100

sat_number == 0

classification == <<"U">>

int_desg == <<"2", "5", "0", "0", "1", "A">>

mm_dot == Real(FALSE, 0, 0)

mm_ddot == [neg |-> FALSE, m |-> 0, e |-> 0]

bstar == [neg |-> FALSE, m |-> 0, e |-> 0]

ephemeris_type == 0

element_set_number == 1

rev_number == 1

\* (start_time - start_of_year).to_value('day') + 1
day_of_year(start_time) ==
    Real(FALSE, start_time.elapsed.whole + 1, start_time.elapsed.frac)

epoch_str_Width11(start_time) ==
    ZeroPad(IntStr(start_time.year % 100), 2)
        \o ZeroPad(FormatF(day_of_year(start_time), 8), 11)

\* f"{year_short:02d}{day_of_year:012.8f}"
epoch_str(start_time) ==
    ZeroPad(IntStr(start_time.year % 100), 2)
        \o ZeroPad(FormatF(day_of_year(start_time), 8), 12)

\* np.sqrt(GM_earth / a_m**3) * (86400 / (2 pi)), in revolutions per day.
\* With a in km this is 8681660 / a^1.5; it is evaluated in 32-bit integer
\* arithmetic, in units of 1e-8 rev/day, to about four significant digits.
mean_motion_rev_day(altitude_m) ==
    LET a_km == (R_earth + altitude_m) \div 1000
        root == SqrtSearch(a_km * 10000, 0, 46340)
        n8   == (((2000000000 \div a_km) * 1000) \div root) * 43408
    IN  Real(FALSE, n8 \div 100000000, (n8 % 100000000) * 10)

\* f"{mm_dot:+.8f}"[:1] + f"{mm_dot:+.8f}"[2:]
mm_dot_string ==
    LET s == <<"+">> \o FormatF(mm_dot, 8)
    IN  SubSeq(s, 1, 1) \o DropFirst(s, 2)

line1_data(start_time) ==
    <<"1", " ">> \o ZeroPad(IntStr(sat_number), 5) \o classification
        \o <<" ">> \o PadRight(int_desg, 8)
        \o <<" ">> \o PadRight(epoch_str(start_time), 14)
        \o <<" ">> \o mm_dot_string
        \o <<" ">> \o format_leading_zero(mm_ddot)
        \o <<" ">> \o format_leading_zero(bstar)
        \o <<" ">> \o IntStr(ephemeris_type)
        \o <<" ">> \o PadLeft(IntStr(element_set_number), 4)

ecc_str_NoStrip(eccentricity) == FormatF(eccentricity, 7)

\* f"{eccentricity:.7f}"[2:]
ecc_str(eccentricity) == DropFirst(FormatF(eccentricity, 7), 2)

line2_data(a) ==
    <<"2", " ">> \o ZeroPad(IntStr(sat_number), 5)
        \o <<" ">> \o PadLeft(FormatF(a.inclination_deg, 4), 8)
        \o <<" ">> \o PadLeft(FormatF(a.raan_deg, 4), 8)
        \o <<" ">> \o PadRight(ecc_str(a.eccentricity), 7)
        \o <<" ">> \o PadLeft(FormatF(a.argp_deg, 4), 8)
        \o <<" ">> \o PadLeft(FormatF(a.anomaly_deg, 4), 8)
        \o <<" ">> \o PadLeft(FormatF(mean_motion_rev_day(a.altitude_m), 8), 11)
        \o ZeroPad(IntStr(rev_number), 5)

Line1Error == "Line 1 is not 68 characters long before adding checksum."

Line2Error == "Line 2 is not 68 characters long before adding checksum."

Raise(exc, msg) == [kind |-> "raise", exc |-> exc, msg |-> msg, value |-> <<>>]

Return(value) == [kind |-> "return", exc |-> "", msg |-> "", value |-> value]

\* The outcome of one call: the returned text, or the exception raised.
\* (The two print() calls before the line-2 raise write to stdout only.)
forge_tle_single(a) ==
    LET line1 == line1_data(a.start_time)
        line2 == line2_data(a)
    IN  IF Len(line1) # 68 THEN Raise("ValueError", Line1Error)
        ELSE IF Len(line2) # 68 THEN Raise("ValueError", Line2Error)
        ELSE Return(a.sat_name \o <<"\n">>
                    \o Append(line1, DigitChar(_compute_tle_checksum(line1)))
                    \o <<"\n">>
                    \o Append(line2, DigitChar(_compute_tle_checksum(line2))))

(***************************************************************************)
(* forge_tle_belt                                                          *)
(***************************************************************************)
\* The first k decimals of rem / n, for 0 <= rem < n.
RECURSIVE FracDigits(_, _, _)
FracDigits(rem, n, k) ==
    IF k = 0 THEN 0
    ELSE ((rem * 10) \div n) * Pow10(k - 1) + FracDigits((rem * 10) % n, n, k - 1)

raan_deg_plane(pl) == Real(FALSE, pl * 10, 0)

anomaly_deg_sat_Next(sat, n) ==
    Real(FALSE, ((sat + 1) * 360) \div n, FracDigits(((sat + 1) * 360) % n, n, 9))

\* satellite_idx * step, with step = 360.0 / num_sats_per_plane.
anomaly_deg_sat(sat, n) ==
    Real(FALSE, (sat * 360) \div n, FracDigits((sat * 360) % n, n, 9))

NamePrefix ==
    <<"S", "y", "s", "t", "e", "m", "C", "_", "B", "e", "l", "t", "_", "1", "_",
      "P", "l", "a", "n", "e", "_">>

\* f"SystemC_Belt_1_Plane_{plane_idx+1}_Satellite_{satellite_idx+1}"
belt_sat_name(pl, sat) ==
    NamePrefix \o IntStr(pl + 1)
        \o <<"_", "S", "a", "t", "e", "l", "l", "i", "t", "e", "_">>
        \o IntStr(sat + 1)

\* The arguments of the forge_tle_single call of one loop iteration.
BeltSingleArgs(b, pl, sat) ==
    [sat_name        |-> belt_sat_name(pl, sat),
     altitude_m      |-> b.altitude_km * 1000,
     eccentricity    |-> b.eccentricity,
     inclination_deg |-> b.inclination_deg,
     raan_deg        |-> raan_deg_plane(pl),
     argp_deg        |-> b.argp_deg,
     anomaly_deg     |-> anomaly_deg_sat(sat, b.num_sats_per_plane),
     start_time      |-> b.start_time]

(***************************************************************************)
(* Inputs                                                                  *)
(***************************************************************************)
MaxSats == 7

MaxPlanes == 3

\* A belt of one satellite per plane, long enough for RAAN to reach 1000.
ManyPlanes == 101

Mantissas == {1, 5, 23, 12345, 999994, 999996, 1234567, 9999996}

\* The decimal exponent of the leading digit of |value|.
LeadExponents == (0 - 104)..13

\* round(vabs * 10000) falls exactly between two integers in decimal; which
\* way the double then falls depends on its binary rounding.
RoundsOnTie(value) ==
    LET n == Normalize(value.m, value.e)
        k == 0 - (n.e + 4)
    IN  /\ k > 0
        /\ k <= NumDigits(n.m)
        /\ 2 * (n.m % Pow10(k)) = Pow10(k)

SciValues ==
    {[neg |-> FALSE, m |-> 0, e |-> 0]}
    \cup {v \in {[neg |-> s, m |-> m, e |-> l - NumDigits(m) + 1] :
                    s \in BOOLEAN, m \in Mantissas, l \in LeadExponents} :
            ~RoundsOnTie(v)}

Names == {<<"T", "e", "s", "t">>, <<"A", "-", "1">>}

Altitudes == {0, 35786000}

Eccentricities ==
    {Real(FALSE, 0, 0), Real(FALSE, 0, 1234560),
     Real(FALSE, 0, 999999940), Real(FALSE, 0, 999999960)}

Inclinations ==
    {Real(FALSE, 87, 900000000), Real(FALSE, 0, 0),
     Real(FALSE, 999, 999940000), Real(FALSE, 999, 999960000),
     Real(FALSE, 1000, 0), Real(TRUE, 99, 999940000),
     Real(TRUE, 100, 0), Real(TRUE, 0, 10000)}

Raans == {Real(FALSE, 350, 0), Real(TRUE, 100, 0)}

Argps == {Real(FALSE, 0, 0), Real(FALSE, 1234, 500000000)}

Anomalies == {Real(FALSE, 0, 0), Real(FALSE, 359, 123449000)}

StartTimes ==
    {[year |-> y, elapsed |-> d] :
        y \in {1999, 2025},
        d \in {Real(FALSE, 0, 0), Real(FALSE, 8, 999999996),
               Real(FALSE, 99, 500000000), Real(FALSE, 365, 999999999)}}

SingleArgs ==
    [sat_name : Names, altitude_m : Altitudes, eccentricity : Eccentricities,
     inclination_deg : Inclinations, raan_deg : Raans, argp_deg : Argps,
     anomaly_deg : Anomalies, start_time : StartTimes]

BeltShapes ==
    ((0..MaxSats) \X (0..MaxPlanes)) \cup {<<1, ManyPlanes>>, <<0, ManyPlanes>>}

BeltArgs ==
    {[num_sats_per_plane |-> sh[1], plane_count |-> sh[2], altitude_km |-> 1200,
      eccentricity |-> Real(FALSE, 0, 0), inclination_deg |-> i,
      argp_deg |-> Real(FALSE, 0, 0),
      start_time |-> [year |-> 2025, elapsed |-> Real(FALSE, 0, 0)]] :
        sh \in BeltShapes,
        i \in {Real(FALSE, 87, 900000000), Real(FALSE, 1000, 0)}}

(***************************************************************************)
(* The calls                                                               *)
(***************************************************************************)
NoReturn == [kind |-> "none", exc |-> "", msg |-> "", value |-> <<>>]

Init ==
    /\ pc = "idle"
    /\ call = [fn |-> "none", args |-> <<>>]
    /\ ret = NoReturn
    /\ plane_idx = 0
    /\ satellite_idx = 0
    /\ tle_list = <<>>

Call_format_leading_zero ==
    /\ pc = "idle"
    /\ \E value \in SciValues :
        /\ call' = [fn |-> "format_leading_zero", args |-> value]
        /\ ret' = Return(format_leading_zero(value))
    /\ pc' = "done"
    /\ UNCHANGED <<plane_idx, satellite_idx, tle_list>>

Call_forge_tle_single ==
    /\ pc = "idle"
    /\ \E a \in SingleArgs :
        /\ call' = [fn |-> "forge_tle_single", args |-> a]
        /\ ret' = forge_tle_single(a)
    /\ pc' = "done"
    /\ UNCHANGED <<plane_idx, satellite_idx, tle_list>>

\* Lines 190-192: tle_list = [], altitude_m, step = 360.0 / num_sats_per_plane.
Call_forge_tle_belt ==
    /\ pc = "idle"
    /\ \E b \in BeltArgs :
        /\ call' = [fn |-> "forge_tle_belt", args |-> b]
        /\ IF b.num_sats_per_plane = 0
           THEN /\ ret' = Raise("ZeroDivisionError", "float division by zero")
                /\ pc' = "done"
           ELSE /\ ret' = NoReturn
                /\ pc' = "belt_loop"
    /\ plane_idx' = 0
    /\ satellite_idx' = 0
    /\ tle_list' = <<>>

NextIndices ==
    IF satellite_idx + 1 < call.args.num_sats_per_plane
    THEN /\ satellite_idx' = satellite_idx + 1
         /\ plane_idx' = plane_idx
    ELSE /\ satellite_idx' = 0
         /\ plane_idx' = plane_idx + 1

belt_iteration_Skip ==
    /\ pc = "belt_loop"
    /\ plane_idx < call.args.plane_count
    /\ LET r == forge_tle_single(BeltSingleArgs(call.args, plane_idx, satellite_idx))
       IN  /\ tle_list' = IF r.kind = "raise" THEN tle_list
                          ELSE Append(tle_list, r.value)
           /\ NextIndices
           /\ UNCHANGED <<pc, ret>>
    /\ UNCHANGED call

\* One iteration of the loop body, lines 194-203: an exception raised by
\* forge_tle_single leaves forge_tle_belt, whose frame is then as it was.
belt_iteration ==
    /\ pc = "belt_loop"
    /\ plane_idx < call.args.plane_count
    /\ LET r == forge_tle_single(BeltSingleArgs(call.args, plane_idx, satellite_idx))
       IN  IF r.kind = "raise"
           THEN /\ ret' = r
                /\ pc' = "done"
                /\ UNCHANGED <<plane_idx, satellite_idx, tle_list>>
           ELSE /\ tle_list' = Append(tle_list, r.value)
                /\ NextIndices
                /\ UNCHANGED <<pc, ret>>
    /\ UNCHANGED call

\* Line 204: return tle_list.
belt_return ==
    /\ pc = "belt_loop"
    /\ plane_idx >= call.args.plane_count
    /\ ret' = Return(tle_list)
    /\ pc' = "done"
    /\ UNCHANGED <<call, plane_idx, satellite_idx, tle_list>>

Next ==
    \/ Call_format_leading_zero
    \/ Call_forge_tle_single
    \/ Call_forge_tle_belt
    \/ belt_iteration
    \/ belt_return

Spec == Init /\ [][Next]_vars

(***************************************************************************)
(* Reading the output back                                                 *)
(***************************************************************************)
FirstNewline(s) ==
    IF \E i \in 1..Len(s) : s[i] = "\n"
    THEN CHOOSE i \in 1..Len(s) :
            s[i] = "\n" /\ \A j \in 1..(i - 1) : s[j] # "\n"
    ELSE 0

RECURSIVE SplitLines(_)
SplitLines(s) ==
    LET i == FirstNewline(s)
    IN  IF i = 0 THEN <<s>>
        ELSE <<SubSeq(s, 1, i - 1)>> \o SplitLines(SubSeq(s, i + 1, Len(s)))

AllDigits(s) == \A i \in 1..Len(s) : IsDigit(s[i])

RECURSIVE ParseNat(_)
ParseNat(s) ==
    IF s = <<>> THEN 0
    ELSE 10 * ParseNat(SubSeq(s, 1, Len(s) - 1)) + DigitValue(s[Len(s)])

\* A fixed-point field ("  -12.3400") read as a signed count of its last
\* decimal place: spaces and the point dropped, the sign applied.
FieldDigits(s) == SelectSeq(s, IsDigit)

FieldValue(s) ==
    IF \E i \in 1..Len(s) : s[i] = "-"
    THEN 0 - ParseNat(FieldDigits(s)) ELSE ParseNat(FieldDigits(s))

IsSubSeq(needle, hay) ==
    \E i \in 0..(Len(hay) - Len(needle)) :
        SubSeq(hay, i + 1, i + Len(needle)) = needle

\* The records a forge_tle_single call has returned in this state.
Records ==
    (IF call.fn = "forge_tle_single" /\ ret.kind = "return"
     THEN {ret.value} ELSE {})
    \cup {tle_list[i] : i \in 1..Len(tle_list)}

\* encode_checksum of the specification, by position.
RECURSIVE encode_checksum_upto(_, _)
encode_checksum_upto(line, k) ==
    IF k = 0 THEN 0
    ELSE encode_checksum_upto(line, k - 1)
         + (IF line[k] \in {"1", "2", "3", "4", "5", "6", "7", "8", "9"}
            THEN ParseNat(<<line[k]>>)
            ELSE IF line[k] = "-" THEN 1 ELSE 0)

encode_checksum(line) == encode_checksum_upto(line, Len(line)) % 10

\* The value printed with four decimals, as a count of 0.0001.
Rounded4(x) == x.whole * 10000 + RoundHalfEven(x.frac, 100000)

\* The angle printed with four decimals lies in [-99.9999, 999.9999].
AngleFits(x) == IF x.neg THEN Rounded4(x) <= 999999 ELSE Rounded4(x) <= 9999999

EccentricityValid(x) == ~x.neg /\ x.whole = 0

SingleDone == pc = "done" /\ call.fn = "forge_tle_single"

BeltDone == pc = "done" /\ call.fn = "forge_tle_belt"

SciDone == pc = "done" /\ call.fn = "format_leading_zero"

TwoLinesOf69(tle) ==
    LET ls == SplitLines(tle)
    IN  /\ Len(ls) = 3
        /\ Len(ls[2]) = 69 /\ AllDigits(<<ls[2][69]>>)
        /\ Len(ls[3]) = 69 /\ AllDigits(<<ls[3][69]>>)

(***************************************************************************)
(* C1                                                                      *)
(***************************************************************************)
\* C1, as stated: for eccentricity in [0,1), altitude >= 0 and any angles,
\* forge_tle_single returns a block whose lines 1 and 2 have 69 characters.
C1_AnyAngle ==
    (SingleDone /\ EccentricityValid(call.args.eccentricity)
                /\ call.args.altitude_m >= 0)
    => (ret.kind = "return" /\ TwoLinesOf69(ret.value))

\* C1, amended: the same, for angles that fit their 8-character field, that
\* is whose value to four decimals lies in [-99.9999, 999.9999].
C1_FittingAngles ==
    (SingleDone /\ EccentricityValid(call.args.eccentricity)
                /\ call.args.altitude_m >= 0
                /\ AngleFits(call.args.inclination_deg)
                /\ AngleFits(call.args.raan_deg)
                /\ AngleFits(call.args.argp_deg)
                /\ AngleFits(call.args.anomaly_deg))
    => (ret.kind = "return" /\ TwoLinesOf69(ret.value))

C1_Witness ==
    /\ SingleDone
    /\ call.args.inclination_deg = Real(TRUE, 99, 999940000)
    /\ call.args.raan_deg = Real(FALSE, 350, 0)
    /\ call.args.argp_deg = Real(FALSE, 0, 0)
    /\ call.args.eccentricity = Real(FALSE, 0, 999999940)
    /\ ret.kind = "return"
    /\ TwoLinesOf69(ret.value)

(***************************************************************************)
(* C2                                                                      *)
(***************************************************************************)
\* C2: in every record forge_tle_single returns, the last character of
\* line 1 and of line 2 is encode_checksum of the 68 characters before it.
C2_ChecksumAppended ==
    \A tle \in Records :
        LET ls == SplitLines(tle)
        IN  \A k \in {2, 3} :
                /\ Len(ls[k]) = 69
                /\ ls[k][69] = DigitChar(encode_checksum(SubSeq(ls[k], 1, 68)))

C2_Witness ==
    /\ SingleDone
    /\ ret.kind = "return"
    /\ call.args.inclination_deg.neg
    /\ IsSubSeq(<<"-", "9", "9", ".", "9", "9", "9", "9">>, SplitLines(ret.value)[3])

(***************************************************************************)
(* C3                                                                      *)
(***************************************************************************)
PlaneSatelliteTag(pl, sat) ==
    <<"P", "l", "a", "n", "e", "_">> \o IntStr(pl + 1)
        \o <<"_", "S", "a", "t", "e", "l", "l", "i", "t", "e", "_">>
        \o IntStr(sat + 1)

PlaneMajor(list, n, p) ==
    /\ Len(list) = n * p
    /\ \A pl \in 0..(p - 1) : \A sat \in 0..(n - 1) :
          IsSubSeq(PlaneSatelliteTag(pl, sat),
                   SplitLines(list[pl * n + sat + 1])[1])

\* C3: for every n >= 0 and p >= 0 (and shared angles that fit their fields),
\* forge_tle_belt returns n*p records in plane-major order, the record at
\* plane_idx*n + satellite_idx named Plane_{plane_idx+1}_Satellite_{..+1}.
C3_BeltReturnsAllRecords ==
    (BeltDone /\ AngleFits(call.args.inclination_deg)
              /\ AngleFits(call.args.argp_deg))
    => /\ ret.kind = "return"
       /\ PlaneMajor(ret.value, call.args.num_sats_per_plane,
                     call.args.plane_count)

(***************************************************************************)
(* C4                                                                      *)
(***************************************************************************)
\* C4: when forging the record of the current loop iteration fails with the
\* field-width error, the belt call ends at once with that error: nothing is
\* returned, the record is not skipped and no later one is forged.
C4_BeltAbortsOnFailure ==
    [][(/\ pc = "belt_loop"
        /\ plane_idx < call.args.plane_count
        /\ forge_tle_single(
              BeltSingleArgs(call.args, plane_idx, satellite_idx)).kind = "raise")
       => (/\ pc' = "done"
           /\ ret'.kind = "raise"
           /\ ret'.exc = "ValueError"
           /\ ret'.msg \in {Line1Error, Line2Error}
           /\ ret'.value = <<>>
           /\ tle_list' = tle_list)]_vars

C4_Witness ==
    /\ BeltDone
    /\ ret.kind = "raise"
    /\ ret.msg = Line2Error
    /\ Len(tle_list) > 0
    /\ plane_idx > 0

(***************************************************************************)
(* C5                                                                      *)
(***************************************************************************)
\* The decimal exponent of the leading digit of a non-zero value.
Lead(value) == NumDigits(value.m) + value.e - 1

\* The first eight significant digits of a non-zero value.
Norm8(value) == value.m * Pow10(8 - NumDigits(value.m))

IsToken(tok) ==
    /\ Len(tok) = 8
    /\ tok[1] \in {" ", "-"}
    /\ AllDigits(SubSeq(tok, 2, 6))
    /\ tok[7] \in {"+", "-"}
    /\ IsDigit(tok[8])

TokenMantissa(tok) == ParseNat(SubSeq(tok, 2, Len(tok) - 2))

TokenExponent(tok) ==
    IF tok[Len(tok) - 1] = "-" THEN 0 - DigitValue(tok[Len(tok)])
    ELSE DigitValue(tok[Len(tok)])

\* sign * (mantissa / 10000) * 10^exponent is within 1e-4 of value, relative
\* to value.  Both are brought to the smaller of their two decimal exponents;
\* a shift of more than eight places already puts them a factor 10 apart.
DecodesWithin1e4(tok, value) ==
    LET c     == IF value.e < TokenExponent(tok) - 4
                 THEN value.e ELSE TokenExponent(tok) - 4
        shift == TokenExponent(tok) - 4 - c
        back  == value.e - c
    IN  /\ (tok[1] = "-") = value.neg
        /\ shift <= 8
        /\ back <= 8
        /\ Abs(TokenMantissa(tok) * Pow10(shift) - value.m * Pow10(back))
              <= (value.m * Pow10(back)) \div 10000

ZeroToken == <<" ", "0", "0", "0", "0", "0", "-", "0">>

\* C6, as stated: 0.0 encodes as " 00000-0", and every value with
\* 1e-9 <= |value| < 1e10 decodes back to within 1e-4 relative error.
C6_RoundTripFullRange ==
    SciDone =>
        /\ call.args.m = 0 => ret.value = ZeroToken
        /\ (call.args.m # 0 /\ Lead(call.args) >= 0 - 9 /\ Lead(call.args) <= 9)
              => DecodesWithin1e4(ret.value, call.args)

\* C6, amended: the same for 1e-9 <= |value| < 9.99995e9; from 9.99995e9 on
\* the mantissa rounds up to 100000 at exponent 9 and the carry is lost in
\* the saturation of the exponent.
C6_RoundTripBelowSaturation ==
    SciDone =>
        /\ call.args.m = 0 => ret.value = ZeroToken
        /\ (/\ call.args.m # 0
            /\ Lead(call.args) >= 0 - 9
            /\ \/ Lead(call.args) < 9
               \/ Lead(call.args) = 9 /\ Norm8(call.args) < 99999500)
              => DecodesWithin1e4(ret.value, call.args)

C6_Witness ==
    /\ SciDone
    /\ call.args.m = 999996
    /\ Lead(call.args) = 8
    /\ ~call.args.neg
    /\ ret.value = <<" ", "1", "0", "0", "0", "0", "+", "9">>
    /\ DecodesWithin1e4(ret.value, call.args)

(***************************************************************************)
(* C7                                                                      *)
(***************************************************************************)
\* Columns 27-33 of line 2.
EccentricityField(tle) == SubSeq(SplitLines(tle)[3], 27, 33)

\* C7: for every eccentricity in [0,1) the field is seven digits that read
\* as the value rounded to seven decimals, and the two characters stripped
\* from the formatted value are "0.".
C7_EccentricityField ==
    (SingleDone /\ ret.kind = "return"
                /\ EccentricityValid(call.args.eccentricity))
    => /\ AllDigits(EccentricityField(ret.value))
       /\ ParseNat(EccentricityField(ret.value))
             = RoundHalfEven(call.args.eccentricity.frac, 100)
       /\ SubSeq(FormatF(call.args.eccentricity, 7), 1, 2) = <<"0", ".">>

(***************************************************************************)
(* C8                                                                      *)
(***************************************************************************)
\* Columns 18-25 and 44-51 of line 2, as counts of 0.0001 degree.
RaanField(tle) == FieldValue(SubSeq(SplitLines(tle)[3], 18, 25))

AnomalyField(tle) == FieldValue(SubSeq(SplitLines(tle)[3], 44, 51))

BeltReturned == BeltDone /\ ret.kind = "return"

\* C8, as stated: within a plane consecutive mean anomalies differ by
\* exactly 360/n, the first is 0, and the RAAN of plane j is 10*j.
C8_ExactSpacing ==
    BeltReturned =>
        LET n == call.args.num_sats_per_plane
        IN  \A k \in 1..Len(ret.value) :
                LET pl  == (k - 1) \div n
                    sat == (k - 1) % n
                IN  /\ RaanField(ret.value[k]) = pl * 100000
                    /\ sat = 0 => AnomalyField(ret.value[k]) = 0
                    /\ sat > 0 =>
                          (AnomalyField(ret.value[k])
                             - AnomalyField(ret.value[k - 1])) * n = 3600000

\* C8, amended: the mean-anomaly field of satellite k is k*360/n to the
\* nearest 0.0001 degree, so consecutive fields differ by 360/n to within
\* 0.0001 degree; the first is 0 and the RAAN of plane j is exactly 10*j.
C8_SpacingToFourDecimals ==
    BeltReturned =>
        LET n == call.args.num_sats_per_plane
        IN  \A k \in 1..Len(ret.value) :
                LET pl  == (k - 1) \div n
                    sat == (k - 1) % n
                IN  /\ RaanField(ret.value[k]) = pl * 100000
                    /\ sat = 0 => AnomalyField(ret.value[k]) = 0
                    /\ 2 * Abs(AnomalyField(ret.value[k]) * n - sat * 3600000) <= n
                    /\ sat > 0 =>
                          Abs((AnomalyField(ret.value[k])
                                 - AnomalyField(ret.value[k - 1])) * n - 3600000)
                             <= n

C8_Witness ==
    /\ BeltReturned
    /\ call.args.num_sats_per_plane = 7
    /\ call.args.plane_count = 3
    /\ Len(ret.value) = 21
    /\ AnomalyField(ret.value[9]) = 514286
    /\ RaanField(ret.value[9]) = 100000

(***************************************************************************)
(* C9                                                                      *)
(***************************************************************************)
\* C9: the tokens of the docstring: 0.0 -> " 00000-0",
\* 1.2345e-5 -> " 12345-5", -2.3e-3 -> "-02300-3".
C9_DocstringExamples ==
    SciDone =>
        /\ call.args.m = 0 => ret.value = ZeroToken
        /\ call.args = [neg |-> FALSE, m |-> 12345, e |-> 0 - 9]
              => ret.value = <<" ", "1", "2", "3", "4", "5", "-", "5">>
        /\ call.args = [neg |-> TRUE, m |-> 23, e |-> 0 - 4]
              => ret.value = <<"-", "0", "2", "3", "0", "0", "-", "3">>

(***************************************************************************)
(* C10                                                                     *)
(***************************************************************************)
\* C10: the line-1 width check never fails: for every epoch the epoch string
\* has 14 characters and the line-1 data 68, so a forge_tle_single call, alone
\* or from the belt, raises no error but the line-2 one.
C10_Line1CheckNeverFails ==
    /\ SingleDone =>
          /\ Len(epoch_str(call.args.start_time)) = 14
          /\ Len(line1_data(call.args.start_time)) = 68
          /\ ret.kind = "raise" => ret.msg = Line2Error
    /\ (BeltDone /\ ret.exc = "ValueError") => ret.msg = Line2Error

C10_Witness ==
    /\ SingleDone
    /\ call.args.start_time.elapsed = Real(FALSE, 8, 999999996)
    /\ ret.kind = "raise"
    /\ ret.msg = Line2Error

====
